---- MODULE Spec2Model ----
(***************************************************************************)
(* Debate orchestration (debate.py), the experiment store                  *)
(* (scripts/core/experiment_store.py), retrospective judging               *)
(* (scripts/analysis/judge_existing_debates.py), the debate motion suite   *)
(* (run_debate_motion_suite.py) and the motion cleaner                     *)
(* (scripts/data_processing/clean_debate_motions.py) as state machines.    *)
(*                                                                         *)
(* Texts are abstract tokens.  A JSON object is a record with a field      *)
(* "keys" (the keys present) and one field per key it may carry.           *)
(***************************************************************************)
EXTENDS Integers, Sequences, FiniteSets, TLC

\* ------------------------------------------------------------------ bounds
MaxTurns == 3
MaxRuns == 1
MaxStored == 2
MaxStoreOps == 3
MaxFailures == 2
MaxHistory == 2
MaxWriters == 2
MaxRetries == 3

\* --------------------------------------------------------------- variables
VARIABLES
    experiments,      \* table experiments: row i has id i (AUTOINCREMENT, no delete)
    debate_turns,     \* table debate_turns
    judgments,        \* table judgments
    clock,            \* source of datetime.utcnow()
    pc,               \* run_debate: "idle", "debating", "judging", "saved", "aborted"
    turns,            \* run_debate argument
    pro_went_first,   \* run_debate argument
    timestamp,        \* run_debate local
    turn,             \* run_debate: outer loop index + 1
    slot,             \* run_debate: inner loop index + 1
    debate_history,   \* run_debate local
    debate_shortened, \* run_debate local
    errors,           \* run_debate local
    invocations,      \* every make_argument call of the run: [round, position, seen]
    judge_calls,      \* every judge_debate call of the run: the history it was given
    failed,           \* some Debater or Judge call of the run raised
    store_before,     \* experiments and debate_turns when the run started
    runs,             \* run_debate calls started so far
    rpc,              \* judge_existing_debates.main: "idle", "loop", "done", "crashed"
    args,             \* parsed command line of judge_existing_debates
    exp_list,         \* main: experiments, a list of (exp_id, exp_data, source row id)
    ei,               \* main: index into exp_list
    ci,               \* process_experiment: index into turns_range
    ji,               \* process_experiment: index into judge_models
    retro_log,        \* every judge_at_turn_cutoff call of the batch
    retro_before,     \* the three tables when the batch started
    jresp,            \* a judge model response handed to judge_debate
    jresult,          \* what judge_debate did with jresp
    sresult,          \* store session: what the last store call returned
    sops,             \* store session: number of calls made
    saved_records,    \* every save call that returned: [id, record], oldest first
    dposition,        \* Debater.position of a make_argument call
    dhistory,         \* make_argument: debate_history
    dresp,            \* make_argument: what model_client.generate gives
    dprompt,          \* make_argument: user_prompt
    dresult,          \* what make_argument did
    txn,              \* per store instance: the open connection of its save call
    lock,             \* the instance holding the write lock of the database, or 0
    suite,            \* run_debate_motion_suite.main: its position and experiment_ids
    cleaner           \* clean_single_motion: its loop, the calls made, what it returned

storeVars == <<experiments, debate_turns, judgments>>
liveVars == <<pc, turns, pro_went_first, timestamp, turn, slot, debate_history,
              debate_shortened, errors, invocations, judge_calls, failed, store_before,
              runs>>
retroVars == <<rpc, args, exp_list, ei, ci, ji, retro_log, retro_before>>
judgeVars == <<jresp, jresult>>
sessionVars == <<sresult, sops>>
debaterVars == <<dposition, dhistory, dresp, dprompt, dresult>>
txnVars == <<txn, lock>>
toolVars == <<suite, cleaner>>
vars == <<storeVars, clock, liveVars, retroVars, judgeVars, sessionVars, saved_records,
          debaterVars, txnVars, toolVars>>

\* ------------------------------------------------------------ JSON values
Null == "<null>"
NoKey == "<no key>"

\* dict.get(key, default) on a JSON object
Get(obj, key, default) == IF key \in obj.keys THEN obj[key] ELSE default

\* ------------------------------------------------- model responses (inputs)
\* What ModelClient.generate gives a Debater: an API error, text without a
\* JSON object, text whose {...} span is not JSON, or a JSON object.
DebaterJson(keys, refused, reason, url, quote, context, argument) ==
    [kind |-> "json", keys |-> keys, refused |-> refused, reason |-> reason,
     url |-> url, quote |-> quote, context |-> context, argument |-> argument]

DebaterNoObject(kind) ==
    [kind |-> kind, keys |-> {}, refused |-> FALSE, reason |-> "",
     url |-> "", quote |-> "", context |-> "", argument |-> ""]

ArgumentFields == {"url", "quote", "context", "argument"}

\* the k-th reply of a debate carries its own argument text
DebaterResponses(k) ==
    { DebaterNoObject("api_error"), DebaterNoObject("no_json"), DebaterNoObject("bad_json"),
      DebaterJson(ArgumentFields, FALSE, "", "u", "q", "c", "a" \o ToString(k)),
      DebaterJson({"url", "quote", "argument"}, FALSE, "", "u", "q", "", "a" \o ToString(k)),
      DebaterJson({"refused", "reason"}, TRUE, "why", "", "", "", "") }

\* What ModelClient.generate gives a Judge.  score is a JSON value: int says
\* whether it is a JSON integer, val its value (the integer part otherwise).
JudgeJson(keys, verdict, int, val) ==
    [kind |-> "json", keys |-> keys, verdict |-> verdict,
     score |-> [int |-> int, val |-> val], explanation |-> "because"]

JudgeNoObject(kind) ==
    [kind |-> kind, keys |-> {}, verdict |-> "", score |-> [int |-> TRUE, val |-> 0],
     explanation |-> ""]

JudgeFields == {"verdict", "score", "explanation"}

\* ------------------------------------------------------------ debate.py
NoEntry ==
    [position |-> "", model |-> "", refused |-> FALSE, refusal_reason |-> NoKey,
     url |-> "", quote |-> "", context |-> "", argument |-> ""]

Raised(error) == [raised |-> TRUE, error |-> error, entry |-> NoEntry]
Returned(entry) == [raised |-> FALSE, error |-> "", entry |-> entry]

\* str.upper of a position
Upper(position) == IF position = "pro" THEN "PRO" ELSE "CON"

\* one piece of the user prompt: a fixed sentence, or the block of one turn
PromptText(text) ==
    [text |-> text, i |-> 0, position |-> "", url |-> "", quote |-> "", context |-> "",
     argument |-> ""]

PromptTurn(i, entry) ==
    [text |-> "Turn", i |-> i, position |-> Upper(entry.position), url |-> entry.url,
     quote |-> entry.quote, context |-> entry.context, argument |-> entry.argument]

\* Debater.make_argument up to the model call: the user prompt, in pieces;
\* the loop numbers the entries with enumerate and skips the refused ones
user_prompt(history) ==
    IF history = <<>>
    THEN << PromptText("Make your opening argument. Provide your response in JSON format.") >>
    ELSE LET numbered == [i \in 1..Len(history) |->
                            [i |-> i, entry |-> history[i]]]
             shown == SelectSeq(numbered, LAMBDA t : ~t.entry.refused)
         IN << PromptText("Here is the debate history so far. Now make your next argument."),
               PromptText("DEBATE SO FAR:") >>
            \o [k \in 1..Len(shown) |-> PromptTurn(shown[k].i, shown[k].entry)]
            \o << PromptText("Provide your response in JSON format.") >>

\* Debater.make_argument from the model call on: parse, refusal, validation
make_argument(position, resp) ==
    IF resp.kind = "api_error" THEN Raised("RuntimeError")
    ELSE IF resp.kind \in {"no_json", "bad_json"} THEN Raised("ValueError")
    ELSE IF Get(resp, "refused", FALSE)
    THEN Returned([position |-> position, model |-> position, refused |-> TRUE,
                   refusal_reason |-> Get(resp, "reason", "No reason provided"),
                   url |-> "", quote |-> "", context |-> "", argument |-> ""])
    ELSE IF ArgumentFields \ resp.keys # {} THEN Raised("ValueError")
    ELSE Returned([position |-> position, model |-> position, refused |-> FALSE,
                   refusal_reason |-> NoKey,
                   url |-> resp.url, quote |-> resp.quote, context |-> resp.context,
                   argument |-> resp.argument])

valid_verdicts == {"supported", "contradicted", "misleading", "needs more evidence"}

NoVerdict == [verdict |-> "", score |-> 0, explanation |-> ""]
JudgeRaised(error) == [raised |-> TRUE, error |-> error, verdict |-> NoVerdict]
JudgeReturned(v) == [raised |-> FALSE, error |-> "", verdict |-> v]

\* a judge_debate that checks the type of the score but not its range
judge_debate_any_integer(resp) ==
    IF resp.kind = "api_error" THEN JudgeRaised("RuntimeError")
    ELSE IF resp.kind \in {"no_json", "bad_json"} THEN JudgeRaised("ValueError")
    ELSE IF JudgeFields \ resp.keys # {} THEN JudgeRaised("ValueError")
    ELSE IF resp.verdict \notin valid_verdicts THEN JudgeRaised("ValueError")
    ELSE IF ~resp.score.int THEN JudgeRaised("ValueError")
    ELSE IF resp.verdict = "needs more evidence" /\ resp.score.val # -1
    THEN JudgeRaised("ValueError")
    ELSE JudgeReturned([verdict |-> resp.verdict, score |-> resp.score.val,
                        explanation |-> resp.explanation])

\* Judge.judge_debate from the model call on: parse and validation
judge_debate(resp) ==
    IF resp.kind = "api_error" THEN JudgeRaised("RuntimeError")
    ELSE IF resp.kind \in {"no_json", "bad_json"} THEN JudgeRaised("ValueError")
    ELSE IF JudgeFields \ resp.keys # {} THEN JudgeRaised("ValueError")
    ELSE IF resp.verdict \notin valid_verdicts THEN JudgeRaised("ValueError")
    ELSE IF ~resp.score.int THEN JudgeRaised("ValueError")
    ELSE IF resp.score.val \notin -1..10 THEN JudgeRaised("ValueError")
    ELSE IF resp.verdict = "needs more evidence" /\ resp.score.val # -1
    THEN JudgeRaised("ValueError")
    ELSE JudgeReturned([verdict |-> resp.verdict, score |-> resp.score.val,
                        explanation |-> resp.explanation])

\* a run_debate that always lets pro speak first
DebaterOrderProFirst(pwf) == <<"pro", "con">>

\* run_debate: the order of the inner loop
DebaterOrder(pwf) == IF pwf THEN <<"pro", "con">> ELSE <<"con", "pro">>

\* a run_debate that exits on an API error of a Debater only
DebaterErrorExitsApiOnly(error) == error = "RuntimeError"

\* run_debate: the three except clauses around make_argument all sys.exit(1)
DebaterErrorExits(error) == error \in {"RuntimeError", "ValueError", "Exception"}

\* a run_debate that puts the newest argument first
InsertArgument(history, arg) == <<arg>> \o history

\* run_debate: debate_history.append(arg)
AppendArgument(history, arg) == Append(history, arg)

\* a run_debate that lets the round finish after a refusal
InnerBreakNever(shortened) == FALSE

\* run_debate: "if debate_shortened: break" of the inner loop
InnerBreak(shortened) == shortened

\* a run_debate whose outer loop never stops on a refusal
OuterBreakNever(shortened) == FALSE

\* run_debate: "if debate_shortened: break" of the outer loop
OuterBreak(shortened) == shortened

\* a create_experiment_json that counts the rounds from zero
TurnNumberFromZero(turn_num) == turn_num \div 2

\* create_experiment_json: the turn number of the k-th entry (turn_num = k)
TurnNumber(turn_num) == (turn_num + 1) \div 2

\* create_experiment_json: one transcript entry
TranscriptEntry(entry, turn_num) ==
    [turn |-> TurnNumber(turn_num),
     debater |-> entry.position,
     argument |-> entry.argument,
     source_url |-> entry.url,
     source_quote |-> entry.quote,
     refused |-> entry.refused,
     refusal_reason |-> IF entry.refused THEN entry.refusal_reason ELSE NoKey]

DecisionFields == {"verdict", "score", "reasoning"}

create_experiment_json(history, verdict, t, pwf, ts, errs) ==
    [experiment_config |-> [timestamp |-> ts, turns |-> t, pro_went_first |-> pwf],
     debate_transcript |-> [k \in 1..Len(history) |-> TranscriptEntry(history[k], k)],
     judge_decision |-> [keys |-> DecisionFields, verdict |-> verdict.verdict,
                         score |-> verdict.score, reasoning |-> verdict.explanation],
     errors_or_refusals |-> errs]

\* the judge_decision of a record whose judging is deferred: no member at all
NoDecision == [keys |-> {}, verdict |-> "", score |-> 0, reasoning |-> ""]

\* run_debate_no_judge: the record of a debate that skips the Judge
no_judge_experiment_json(history, t, pwf, ts, errs) ==
    [create_experiment_json(history, NoVerdict, t, pwf, ts, errs)
        EXCEPT !.judge_decision = NoDecision]

\* ---------------------------------------------------------- JSON text
\* json.dumps of a str, an int, a bool
JsonString(s) == "\"" \o s \o "\""
JsonInt(n) == ToString(n)
JsonBool(b) == IF b THEN "true" ELSE "false"

\* the integers and texts a debate record can carry (a timestamp is the
\* text of a clock reading)
JsonInts == -1..(10 + MaxStored + MaxRuns)

\* run_debate_motion_suite.run_debate_config: "--rounds", "6"
SuiteRounds == 6

Texts ==
    { "", "u", "q", "c", "a", "why", "No reason provided", "pro", "con", "live", "because" }
    \cup { "supported", "contradicted", "misleading", "needs more evidence" }
    \cup { "a" \o ToString(k) : k \in 1..(2 * MaxTurns) }
    \cup { "a" \o ToString(k) : k \in 1..(2 * SuiteRounds) }
    \cup { ToString(n) : n \in JsonInts }

\* json.loads of the text of a str, an int, a bool
ParseString(text) == CHOOSE s \in Texts : JsonString(s) = text
ParseInt(text) == CHOOSE n \in JsonInts : JsonInt(n) = text
ParseBool(text) == CHOOSE b \in BOOLEAN : JsonBool(b) = text

\* json.dumps(experiment): the members of each object as JSON text; a key
\* the dict does not have is no member of the object
json_dumps(experiment) ==
    [experiment_config |->
        [timestamp |-> JsonString(ToString(experiment.experiment_config.timestamp)),
         turns |-> JsonInt(experiment.experiment_config.turns),
         pro_went_first |-> JsonBool(experiment.experiment_config.pro_went_first)],
     debate_transcript |->
        [k \in 1..Len(experiment.debate_transcript) |->
            LET t == experiment.debate_transcript[k] IN
            [turn |-> JsonInt(t.turn),
             debater |-> JsonString(t.debater),
             argument |-> JsonString(t.argument),
             source_url |-> JsonString(t.source_url),
             source_quote |-> JsonString(t.source_quote),
             refused |-> IF t.refused THEN JsonBool(TRUE) ELSE NoKey,
             refusal_reason |-> IF t.refusal_reason = NoKey THEN NoKey
                                ELSE JsonString(t.refusal_reason)]],
     judge_decision |->
        LET d == experiment.judge_decision IN
        [keys |-> d.keys,
         verdict |-> IF "verdict" \in d.keys THEN JsonString(d.verdict) ELSE NoKey,
         score |-> IF "score" \in d.keys THEN JsonInt(d.score) ELSE NoKey,
         reasoning |-> IF "reasoning" \in d.keys THEN JsonString(d.reasoning) ELSE NoKey],
     errors_or_refusals |->
        [k \in 1..Len(experiment.errors_or_refusals) |->
            JsonString(experiment.errors_or_refusals[k])]]

\* json.loads(full_data)
json_loads(text) ==
    [experiment_config |->
        [timestamp |-> ParseInt(ParseString(text.experiment_config.timestamp)),
         turns |-> ParseInt(text.experiment_config.turns),
         pro_went_first |-> ParseBool(text.experiment_config.pro_went_first)],
     debate_transcript |->
        [k \in 1..Len(text.debate_transcript) |->
            LET t == text.debate_transcript[k] IN
            [turn |-> ParseInt(t.turn),
             debater |-> ParseString(t.debater),
             argument |-> ParseString(t.argument),
             source_url |-> ParseString(t.source_url),
             source_quote |-> ParseString(t.source_quote),
             refused |-> IF t.refused = NoKey THEN FALSE ELSE ParseBool(t.refused),
             refusal_reason |-> IF t.refusal_reason = NoKey THEN NoKey
                                ELSE ParseString(t.refusal_reason)]],
     judge_decision |->
        LET d == text.judge_decision IN
        [keys |-> d.keys,
         verdict |-> IF "verdict" \in d.keys THEN ParseString(d.verdict) ELSE "",
         score |-> IF "score" \in d.keys THEN ParseInt(d.score) ELSE 0,
         reasoning |-> IF "reasoning" \in d.keys THEN ParseString(d.reasoning) ELSE ""],
     errors_or_refusals |->
        [k \in 1..Len(text.errors_or_refusals) |->
            ParseString(text.errors_or_refusals[k])]]

\* ---------------------------------------------------- experiment_store.py
\* a column that admits NULL holds <<>> for NULL and <<v>> for the value v
SqlNull == <<>>
SqlValue(v) == <<v>>

\* SQLiteExperimentStore.save: judge_decision.get(key, default) as bound to
\* the INSERT (judge_decision is "experiment.get('judge_decision') or {}")
DecisionColumn(judge_decision, key, default) ==
    SqlValue(Get(judge_decision, key, default))

\* SQLiteExperimentStore.save: the experiments row
ExperimentRow(id, experiment) ==
    [id |-> id,
     timestamp |-> experiment.experiment_config.timestamp,
     turns |-> experiment.experiment_config.turns,
     pro_went_first |-> experiment.experiment_config.pro_went_first,
     judge_verdict |-> DecisionColumn(experiment.judge_decision, "verdict", ""),
     judge_score |-> DecisionColumn(experiment.judge_decision, "score", 0),
     judge_reasoning |-> DecisionColumn(experiment.judge_decision, "reasoning", ""),
     full_data |-> json_dumps(experiment)]

\* SQLiteExperimentStore.save: the debate_turns rows
TurnRows(id, experiment, first_id) ==
    [k \in 1..Len(experiment.debate_transcript) |->
        LET t == experiment.debate_transcript[k] IN
        [id |-> first_id + k - 1,
         experiment_id |-> id,
         turn_number |-> t.turn,
         debater |-> t.debater,
         argument |-> t.argument,
         source_url |-> t.source_url,
         source_quote |-> t.source_quote,
         refused |-> IF t.refused THEN 1 ELSE 0,
         refusal_reason |-> IF t.refusal_reason = NoKey THEN Null ELSE t.refusal_reason]]

\* an INSERT that gives the id of the newest row again
LastRowIdReused(table) == IF table = <<>> THEN 1 ELSE Len(table)

\* cursor.lastrowid of an INSERT into a table that never loses a row
LastRowId(table) == Len(table) + 1

\* a save that inserts the experiments row twice
save_twice(db, experiment) ==
    [experiments |-> db.experiments
                     \o << ExperimentRow(LastRowId(db.experiments), experiment),
                           ExperimentRow(LastRowId(db.experiments) + 1, experiment) >>,
     debate_turns |-> db.debate_turns \o TurnRows(LastRowId(db.experiments), experiment,
                                                  LastRowId(db.debate_turns)),
     judgments |-> db.judgments]

\* SQLiteExperimentStore.save: one experiments row and its debate_turns rows,
\* committed together
save(db, experiment) ==
    [experiments |-> Append(db.experiments,
                            ExperimentRow(LastRowId(db.experiments), experiment)),
     debate_turns |-> db.debate_turns \o TurnRows(LastRowId(db.experiments), experiment,
                                                  LastRowId(db.debate_turns)),
     judgments |-> db.judgments]

\* a save_judgment that also writes the verdict into the experiments row
save_judgment_and_update(db, experiment_id, judge_model, turns_considered, verdict, score, reasoning, ts) ==
    [experiments |->
        [i \in 1..Len(db.experiments) |->
            IF db.experiments[i].id = experiment_id
            THEN [db.experiments[i] EXCEPT !.judge_verdict = SqlValue(verdict),
                                           !.judge_score = SqlValue(score)]
            ELSE db.experiments[i]],
     debate_turns |-> db.debate_turns,
     judgments |-> Append(db.judgments,
        [id |-> LastRowId(db.judgments), experiment_id |-> experiment_id,
         judge_model |-> judge_model, turns_considered |-> turns_considered,
         verdict |-> verdict, score |-> score, reasoning |-> reasoning,
         timestamp |-> ts])]

\* a save_judgment that keeps one row per (experiment, judge model, cutoff)
save_judgment_replacing(db, experiment_id, judge_model, turns_considered, verdict, score, reasoning, ts) ==
    [experiments |-> db.experiments,
     debate_turns |-> db.debate_turns,
     judgments |-> Append(
        SelectSeq(db.judgments,
                  LAMBDA r : ~(/\ r.experiment_id = experiment_id
                               /\ r.judge_model = judge_model
                               /\ r.turns_considered = turns_considered)),
        [id |-> LastRowId(db.judgments), experiment_id |-> experiment_id,
         judge_model |-> judge_model, turns_considered |-> turns_considered,
         verdict |-> verdict, score |-> score, reasoning |-> reasoning,
         timestamp |-> ts])]

\* SQLiteExperimentStore.save_judgment: one INSERT into judgments; the
\* connection never turns foreign key enforcement on
save_judgment(db, experiment_id, judge_model, turns_considered, verdict, score, reasoning, ts) ==
    [experiments |-> db.experiments,
     debate_turns |-> db.debate_turns,
     judgments |-> Append(db.judgments,
        [id |-> LastRowId(db.judgments), experiment_id |-> experiment_id,
         judge_model |-> judge_model, turns_considered |-> turns_considered,
         verdict |-> verdict, score |-> score, reasoning |-> reasoning,
         timestamp |-> ts])]

\* a get_by_id whose SELECT has no WHERE clause
get_first_row(db, experiment_id) ==
    [k \in 1..(IF db.experiments = <<>> THEN 0 ELSE 1) |->
        json_loads(db.experiments[k].full_data)]

\* SQLiteExperimentStore.get_by_id: json.loads of the full_data of the row
\* with that id, as a list of one record, or the empty list for None
get_by_id(db, experiment_id) ==
    LET rows == SelectSeq(db.experiments, LAMBDA r : r.id = experiment_id)
    IN [k \in 1..(IF rows = <<>> THEN 0 ELSE 1) |-> json_loads(rows[k].full_data)]

\* the place of a judge model id in the collation of the judge_model column
ModelRank(judge_model) ==
    CASE judge_model = "claude-sonnet-4-5-20250929" -> 1
      [] judge_model = "gemini-2.5-flash" -> 2
      [] judge_model = "gpt-4-turbo-preview" -> 3
      [] judge_model = "grok-3" -> 4

\* ORDER BY experiment_id, judge_model, turns_considered (rows that tie
\* come in the order of their ids)
JudgmentBefore(r, o) ==
    \/ r.experiment_id < o.experiment_id
    \/ /\ r.experiment_id = o.experiment_id
       /\ ModelRank(r.judge_model) < ModelRank(o.judge_model)
    \/ /\ r.experiment_id = o.experiment_id
       /\ r.judge_model = o.judge_model
       /\ r.turns_considered < o.turns_considered
    \/ /\ r.experiment_id = o.experiment_id
       /\ r.judge_model = o.judge_model
       /\ r.turns_considered = o.turns_considered
       /\ r.id < o.id

RECURSIVE OrderJudgments(_)
OrderJudgments(rows) ==
    IF rows = {} THEN <<>>
    ELSE LET first == CHOOSE r \in rows : \A o \in rows : o = r \/ JudgmentBefore(r, o)
         IN <<first>> \o OrderJudgments(rows \ {first})

\* SQLiteExperimentStore.get_judgments: a filter is <<>> for None or <<v>>
get_judgments(db, experiment_id, judge_model, turns_considered) ==
    OrderJudgments(
        { db.judgments[i] : i \in
            { k \in 1..Len(db.judgments) :
                /\ experiment_id # <<>> => db.judgments[k].experiment_id = experiment_id[1]
                /\ judge_model # <<>> => db.judgments[k].judge_model = judge_model[1]
                /\ turns_considered # <<>> =>
                      db.judgments[k].turns_considered = turns_considered[1] } })

\* the rows of a SELECT ... ORDER BY timestamp DESC
RECURSIVE OrderByTimestampDesc(_)
OrderByTimestampDesc(rows) ==
    IF rows = {} THEN <<>>
    ELSE LET first == CHOOSE r \in rows : \A o \in rows : o.timestamp <= r.timestamp
         IN <<first>> \o OrderByTimestampDesc(rows \ {first})

\* SQLiteExperimentStore.query without filters (get_all): the rows, newest
\* first (their full_data is decoded where the list is enumerated)
query(db) ==
    OrderByTimestampDesc({db.experiments[i] : i \in 1..Len(db.experiments)})

\* the database the process is connected to
DB == [experiments |-> experiments, debate_turns |-> debate_turns, judgments |-> judgments]

Commit(db) ==
    /\ experiments' = db.experiments
    /\ debate_turns' = db.debate_turns
    /\ judgments' = db.judgments

\* ------------------------------------------------------------ run_debate
LiveJudgeResponses ==
    { JudgeNoObject("api_error"), JudgeNoObject("no_json"), JudgeNoObject("bad_json"),
      JudgeJson(JudgeFields, "supported", TRUE, 7),
      JudgeJson(JudgeFields, "needs more evidence", TRUE, 5),
      JudgeJson({"verdict", "score"}, "supported", TRUE, 7) }

\* run_debate up to the first make_argument call
StartRun ==
    /\ pc \in {"idle", "saved", "aborted"}
    /\ runs < MaxRuns
    /\ runs' = runs + 1
    /\ \E t \in 1..MaxTurns, pwf \in BOOLEAN :
         /\ turns' = t
         /\ pro_went_first' = pwf
    /\ timestamp' = clock
    /\ clock' = clock + 1
    /\ errors' = <<>>
    /\ debate_history' = <<>>
    /\ debate_shortened' = FALSE
    /\ turn' = 1
    /\ slot' = 1
    /\ invocations' = <<>>
    /\ judge_calls' = <<>>
    /\ failed' = FALSE
    /\ store_before' = [experiments |-> experiments, debate_turns |-> debate_turns]
    /\ pc' = "debating"
    /\ UNCHANGED <<storeVars, retroVars, judgeVars, sessionVars, saved_records, debaterVars, toolVars, txnVars>>

\* where the loops of run_debate go after one pass of the inner loop body
AfterSlot(tn, sl, t, shortened) ==
    IF ~InnerBreak(shortened) /\ sl = 1
    THEN [pc |-> "debating", turn |-> tn, slot |-> 2]
    ELSE IF OuterBreak(shortened) \/ tn >= t
    THEN [pc |-> "judging", turn |-> tn, slot |-> sl]
    ELSE [pc |-> "debating", turn |-> tn + 1, slot |-> 1]

\* one pass of the inner loop body: make_argument, append, break tests
DebaterTurn ==
    /\ pc = "debating"
    /\ LET position == DebaterOrder(pro_went_first)[slot] IN
       \E resp \in DebaterResponses(Len(debate_history) + 1) :
         LET r == make_argument(position, resp)
             shortened == debate_shortened \/ (~r.raised /\ r.entry.refused)
             next == AfterSlot(turn, slot, turns, shortened)
         IN
         /\ invocations' = Append(invocations,
                [round |-> turn, position |-> position, seen |-> debate_history])
         /\ failed' = (failed \/ r.raised)
         /\ IF r.raised /\ DebaterErrorExits(r.error)
            THEN /\ pc' = "aborted"
                 /\ UNCHANGED <<turn, slot, debate_history, debate_shortened>>
            ELSE /\ debate_history' =
                       IF r.raised THEN debate_history
                       ELSE AppendArgument(debate_history, r.entry)
                 /\ debate_shortened' = shortened
                 /\ pc' = next.pc
                 /\ turn' = next.turn
                 /\ slot' = next.slot
    /\ UNCHANGED <<storeVars, clock, turns, pro_went_first, timestamp, errors,
                   judge_calls, store_before, runs, retroVars, judgeVars, sessionVars,
                   saved_records, debaterVars, toolVars, txnVars>>

\* a run_debate that exits on an API error of the judge only
JudgeErrorExitsApiOnly(error) == error = "RuntimeError"

\* run_debate: "except Exception: sys.exit(1)" around judge_debate
JudgeErrorExits(error) == error \in {"RuntimeError", "ValueError"}

\* run_debate after the loops: judge_debate, create_experiment_json, store.save
JudgeAndSave ==
    /\ pc = "judging"
    /\ \E resp \in LiveJudgeResponses :
         LET r == judge_debate(resp)
             experiment_data == create_experiment_json(debate_history, r.verdict, turns,
                                    pro_went_first, timestamp, errors)
         IN
         /\ judge_calls' = Append(judge_calls, debate_history)
         /\ failed' = (failed \/ r.raised)
         /\ IF r.raised /\ JudgeErrorExits(r.error)
            THEN /\ pc' = "aborted"
                 /\ UNCHANGED <<storeVars, saved_records>>
            ELSE /\ Commit(save(DB, experiment_data))
                 /\ saved_records' = Append(saved_records,
                        [id |-> LastRowId(experiments), record |-> experiment_data, by |-> 0])
                 /\ pc' = "saved"
    /\ UNCHANGED <<clock, turns, pro_went_first, timestamp, turn, slot, debate_history,
                   debate_shortened, errors, invocations, store_before, runs,
                   retroVars, judgeVars, sessionVars, debaterVars, toolVars, txnVars>>


\* ------------------------------------------- judge_existing_debates.py
\* MODELS[key]["id"]
ModelId(key) ==
    CASE key = "claude" -> "claude-sonnet-4-5-20250929"
      [] key = "gpt4" -> "gpt-4-turbo-preview"
      [] key = "gemini" -> "gemini-2.5-flash"
      [] key = "grok" -> "grok-3"

\* range(start, end + 1) of --turns-range "start-end"
Range(start, end) == [i \in 1..(end - start + 1) |-> start + i - 1]

\* a truncation that keeps the first max_turns entries of the list
truncate_by_position(full_transcript, max_turns) ==
    SubSeq(full_transcript, 1, IF max_turns < Len(full_transcript)
                               THEN max_turns ELSE Len(full_transcript))

truncate_debate_transcript(full_transcript, max_turns) ==
    SelectSeq(full_transcript, LAMBDA entry : entry.turn <= max_turns)

\* a judge_at_turn_cutoff that leaves the source quote out of the history
HistoryViewNoQuote(truncated) ==
    [k \in 1..Len(truncated) |->
        [position |-> truncated[k].debater,
         model |-> NoKey,
         refused |-> truncated[k].refused,
         refusal_reason |-> IF truncated[k].refused
                            THEN truncated[k].refusal_reason ELSE NoKey,
         url |-> truncated[k].source_url,
         quote |-> "",
         context |-> "",
         argument |-> truncated[k].argument]]

\* judge_at_turn_cutoff: the debate history built from the truncated transcript
HistoryView(truncated) ==
    [k \in 1..Len(truncated) |->
        [position |-> truncated[k].debater,
         model |-> NoKey,
         refused |-> truncated[k].refused,
         refusal_reason |-> IF truncated[k].refused
                            THEN truncated[k].refusal_reason ELSE NoKey,
         url |-> truncated[k].source_url,
         quote |-> truncated[k].source_quote,
         context |-> "",
         argument |-> truncated[k].argument]]

\* a judge_at_turn_cutoff that lets a malformed judge response propagate
CutoffErrorCaughtApiOnly(error) == error = "RuntimeError"

\* judge_at_turn_cutoff: "except Exception: return None"
CutoffErrorCaught(error) == error \in {"RuntimeError", "ValueError"}

\* a process_experiment that also skips the last round
SkipCutoffFromLast(cutoff, max_turns) == cutoff >= max_turns

\* process_experiment: "if turns > max_turns: continue"
SkipCutoff(cutoff, max_turns) == cutoff > max_turns

\* main: the (exp_id, exp_data) list when all experiments are selected;
\* row is the id of the experiments row exp_data was read from
EnumerateAll(rows) ==
    [i \in 1..Len(rows) |->
        [exp_id |-> i, exp_data |-> json_loads(rows[i].full_data), row |-> rows[i].id]]

\* main: the (exp_id, exp_data) list of --experiment-ids
RECURSIVE LookupIds(_, _)
LookupIds(db, ids) ==
    IF ids = <<>> THEN <<>>
    ELSE LET found == get_by_id(db, Head(ids))
         IN (IF found = <<>> THEN <<>>
             ELSE <<[exp_id |-> Head(ids), exp_data |-> found[1], row |-> Head(ids)]>>)
            \o LookupIds(db, Tail(ids))

\* main: "Load experiments"
LoadExperiments(db, a) ==
    IF a.mode = "ids" THEN LookupIds(db, a.ids)
    ELSE IF a.turns # 0
    THEN SelectSeq(EnumerateAll(query(db)),
                   LAMBDA e : e.exp_data.experiment_config.turns = a.turns)
    ELSE EnumerateAll(query(db))

\* the passes of the three nested loops (experiments, turns_range,
\* judge_models) that reach judge_at_turn_cutoff
Passes(list, a) ==
    { <<e, c, j>> \in (1..Len(list)) \X (1..Len(a.turns_range)) \X (1..Len(a.judge_models)) :
        ~SkipCutoff(a.turns_range[c], list[e].exp_data.experiment_config.turns) }

Before(p, q) ==
    \/ p[1] < q[1]
    \/ p[1] = q[1] /\ p[2] < q[2]
    \/ p[1] = q[1] /\ p[2] = q[2] /\ p[3] < q[3]

\* the first pass strictly after p (<<0, 0, 0>> for the start), or <<>>
NextPass(list, a, p) ==
    LET later == { q \in Passes(list, a) : Before(p, q) }
    IN IF later = {} THEN <<>>
       ELSE CHOOSE q \in later : \A o \in later : o = q \/ Before(q, o)

\* the judge answers of a batch in which every call succeeds
ValidJudgeResponses == { JudgeJson(JudgeFields, "supported", TRUE, 7) }

RetroJudgeResponses ==
    { JudgeNoObject("api_error"),
      JudgeJson(JudgeFields, "supported", TRUE, 7),
      JudgeJson(JudgeFields, "needs more evidence", TRUE, 5) }

JudgeModelLists == { <<"claude", "gpt4">>, <<"grok">> }

TurnsRanges == { Range(1, MaxTurns), Range(2, MaxTurns + 1) }

IdLists(n) == { <<1>>, <<1, 1>>, <<n, 1>>, <<n + 1>> }

RetroArgs(n) ==
    { [mode |-> m, ids |-> ids, turns |-> t, turns_range |-> r, judge_models |-> js,
       skip_existing |-> TRUE] :
        m \in {"ids"}, ids \in IdLists(n), t \in {0}, r \in TurnsRanges,
        js \in JudgeModelLists }
    \cup
    { [mode |-> m, ids |-> <<>>, turns |-> t, turns_range |-> r, judge_models |-> js,
       skip_existing |-> TRUE] :
        m \in {"all"}, t \in 0..MaxTurns, r \in TurnsRanges, js \in JudgeModelLists }

Failures(log) == Cardinality({ i \in 1..Len(log) : log[i].raised })

\* main, given the parsed arguments, up to the first judge call: load the
\* experiments and enter the loops
Main(a) ==
    /\ rpc = "idle"
    /\ LET list == LoadExperiments(DB, a)
           first == NextPass(list, a, <<0, 0, 0>>)
       IN
       /\ args' = a
       /\ exp_list' = list
       /\ IF first = <<>>
          THEN /\ rpc' = "done"
               /\ UNCHANGED <<ei, ci, ji>>
          ELSE /\ rpc' = "loop"
               /\ ei' = first[1]
               /\ ci' = first[2]
               /\ ji' = first[3]
    /\ retro_log' = <<>>
    /\ retro_before' = DB
    /\ UNCHANGED <<storeVars, clock, liveVars, judgeVars, sessionVars, saved_records, debaterVars, txnVars>>

\* main run from the command line
RetroMain ==
    /\ \E a \in RetroArgs(Len(experiments)) : Main(a)
    /\ UNCHANGED toolVars

\* one pass of the innermost loop of process_experiment: judge_at_turn_cutoff,
\* save_judgment, and the loops up to the next pass; responses is what the
\* judge model may answer
ProcessPass(responses) ==
    /\ rpc = "loop"
    /\ LET e == exp_list[ei]
           cutoff == args.turns_range[ci]
           judge_model == args.judge_models[ji]
           truncated == truncate_debate_transcript(e.exp_data.debate_transcript, cutoff)
           history == HistoryView(truncated)
           next == NextPass(exp_list, args, <<ei, ci, ji>>)
           entry == [pass |-> <<ei, ci, ji>>, exp_id |-> e.exp_id, row |-> e.row,
                     max_turns |-> e.exp_data.experiment_config.turns,
                     cutoff |-> cutoff, judge_model |-> judge_model,
                     truncated |-> truncated, history |-> history,
                     called |-> FALSE, raised |-> FALSE, judgment_id |-> 0]
       IN
       IF truncated = <<>>
       THEN /\ retro_log' = Append(retro_log, entry)
            /\ UNCHANGED <<storeVars, clock>>
            /\ IF next = <<>> THEN rpc' = "done" /\ UNCHANGED <<ei, ci, ji>>
               ELSE rpc' = "loop" /\ ei' = next[1] /\ ci' = next[2] /\ ji' = next[3]
       ELSE \E resp \in responses :
            LET r == judge_debate(resp) IN
            /\ r.raised => Failures(retro_log) < MaxFailures
            /\ IF r.raised /\ ~CutoffErrorCaught(r.error)
               THEN /\ retro_log' = Append(retro_log,
                           [entry EXCEPT !.called = TRUE, !.raised = TRUE])
                    /\ rpc' = "crashed"
                    /\ UNCHANGED <<storeVars, clock, ei, ci, ji>>
               ELSE /\ IF r.raised
                       THEN /\ retro_log' = Append(retro_log,
                                   [entry EXCEPT !.called = TRUE, !.raised = TRUE])
                            /\ UNCHANGED <<storeVars, clock>>
                       ELSE /\ retro_log' = Append(retro_log,
                                   [entry EXCEPT !.called = TRUE,
                                                 !.judgment_id = LastRowId(judgments)])
                            /\ Commit(save_judgment(DB, e.exp_id, ModelId(judge_model),
                                   cutoff, r.verdict.verdict, r.verdict.score,
                                   r.verdict.explanation, clock))
                            /\ clock' = clock + 1
                    /\ IF next = <<>> THEN rpc' = "done" /\ UNCHANGED <<ei, ci, ji>>
                       ELSE rpc' = "loop" /\ ei' = next[1] /\ ci' = next[2] /\ ji' = next[3]
    /\ UNCHANGED <<liveVars, args, exp_list, retro_before, judgeVars, sessionVars,
                   saved_records, debaterVars, txnVars>>

JudgeAtTurnCutoff ==
    /\ ProcessPass(RetroJudgeResponses)
    /\ UNCHANGED toolVars

\* ------------------------------------------------ debates already persisted
\* the final debate_history values of the run_debate calls that reach the Judge
RECURSIVE Histories(_, _, _, _, _, _)
Histories(t, pwf, tn, sl, hist, shortened) ==
    UNION { LET r == make_argument(DebaterOrder(pwf)[sl], resp)
                sh == shortened \/ (~r.raised /\ r.entry.refused)
                next == AfterSlot(tn, sl, t, sh)
            IN IF r.raised THEN {}
               ELSE IF next.pc = "judging" THEN { Append(hist, r.entry) }
               ELSE Histories(t, pwf, next.turn, next.slot, Append(hist, r.entry), sh)
          : resp \in DebaterResponses(Len(hist) + 1) }

InlineVerdict == [verdict |-> "contradicted", score |-> 2, explanation |-> "live"]

\* what run_debate saves at time ts
PersistedDebates(ts) ==
    UNION { { create_experiment_json(h, InlineVerdict, t, pwf, ts, <<>>) :
                h \in Histories(t, pwf, 1, 1, <<>>, FALSE) }
          : <<t, pwf>> \in (1..MaxTurns) \X BOOLEAN }

RECURSIVE SaveAll(_, _)
SaveAll(db, records) ==
    IF records = <<>> THEN db ELSE SaveAll(save(db, Head(records)), Tail(records))

EmptyDB == [experiments |-> <<>>, debate_turns |-> <<>>, judgments |-> <<>>]

\* the debate_history of a debate of t rounds, pro first, nobody refusing
PlainHistory(t) ==
    CHOOSE h \in Histories(t, TRUE, 1, 1, <<>>, FALSE) :
        Len(h) = 2 * t /\ \A k \in 1..Len(h) : ~h[k].refused

\* the records of 1..MaxStored debates run one after another: any debate
\* last, after plain one-round debates
PersistedLists ==
    UNION { { [i \in 1..n |->
                    IF i = n THEN last
                    ELSE create_experiment_json(PlainHistory(1), InlineVerdict, 1, TRUE, i, <<>>)]
              : last \in PersistedDebates(n) }
          : n \in 1..MaxStored }

\* the databases they leave
PersistedStores == { SaveAll(EmptyDB, records) : records \in PersistedLists }

\* the save calls that filled a database: the i-th returned id i
SavedAs(records) ==
    [i \in 1..Len(records) |-> [id |-> i, record |-> records[i], by |-> 0]]

InitPersisted ==
    /\ \E records \in PersistedLists :
         LET db == SaveAll(EmptyDB, records) IN
         /\ experiments = db.experiments
         /\ debate_turns = db.debate_turns
         /\ judgments = db.judgments
         /\ clock = Len(db.experiments) + 1
         /\ saved_records = SavedAs(records)

\* ------------------------------------------------------------ initial state
\* a new database, or one that holds a plain one-round debate
InitialLists ==
    { <<>>, <<create_experiment_json(PlainHistory(1), InlineVerdict, 1, TRUE, 1, <<>>)>> }

InitialStores == { SaveAll(EmptyDB, records) : records \in InitialLists }

InitStore ==
    \E records \in InitialLists :
        LET db == SaveAll(EmptyDB, records) IN
        /\ experiments = db.experiments
        /\ debate_turns = db.debate_turns
        /\ judgments = db.judgments
        /\ clock = Len(db.experiments) + 1
        /\ saved_records = SavedAs(records)

InitLive ==
    /\ pc = "idle"
    /\ turns = 1
    /\ pro_went_first = TRUE
    /\ timestamp = 0
    /\ turn = 1
    /\ slot = 1
    /\ debate_history = <<>>
    /\ debate_shortened = FALSE
    /\ errors = <<>>
    /\ invocations = <<>>
    /\ judge_calls = <<>>
    /\ failed = FALSE
    /\ store_before = [experiments |-> <<>>, debate_turns |-> <<>>]
    /\ runs = 0

NoArgs == [mode |-> "ids", ids |-> <<>>, turns |-> 0, turns_range |-> <<>>,
           judge_models |-> <<>>, skip_existing |-> TRUE]

InitRetro ==
    /\ rpc = "idle"
    /\ args = NoArgs
    /\ exp_list = <<>>
    /\ ei = 1
    /\ ci = 1
    /\ ji = 1
    /\ retro_log = <<>>
    /\ retro_before = [experiments |-> <<>>, debate_turns |-> <<>>, judgments |-> <<>>]

InitJudge ==
    /\ jresp = JudgeNoObject("api_error")
    /\ jresult = JudgeRaised("RuntimeError")

InitSession ==
    /\ sresult = 0
    /\ sops = 0

DebaterPending == [raised |-> FALSE, error |-> "pending", entry |-> NoEntry]

InitDebater ==
    /\ dposition = "pro"
    /\ dhistory = <<>>
    /\ dresp = DebaterNoObject("api_error")
    /\ dprompt = <<>>
    /\ dresult = Raised("RuntimeError")

NoTxn == [open |-> FALSE, kind |-> "none", experiment |-> <<>>, view |-> EmptyDB,
          experiment_id |-> 0, k |-> 0]

InitTxn ==
    /\ txn = [w \in 1..MaxWriters |-> NoTxn]
    /\ lock = 0

SuiteIdle == [pc |-> "idle", debates_only |-> FALSE, experiment_ids |-> <<>>]

CleanerIdle == [pc |-> "idle", motion |-> "", max_retries |-> 0, attempt |-> 0,
                calls |-> <<>>, result |-> <<>>]

InitTools ==
    /\ suite = SuiteIdle
    /\ cleaner = CleanerIdle

Init ==
    InitStore /\ InitLive /\ InitRetro /\ InitJudge /\ InitSession /\ InitDebater /\ InitTxn /\ InitTools

Next == StartRun \/ DebaterTurn \/ JudgeAndSave

\* debates run one after another against one database
Spec == Init /\ [][Next]_vars

\* a run_debate that has started goes on: every model call returns or
\* raises, and the process takes its next step
SpecFair == Init /\ [][Next]_vars /\ WF_vars(DebaterTurn) /\ WF_vars(JudgeAndSave)

\* ------------------------------------------------------- judge_debate alone
JudgeVerdicts == valid_verdicts \cup {"true"}
JudgeScores == -2..11

AllJudgeResponses ==
    { JudgeNoObject(k) : k \in {"api_error", "no_json", "bad_json"} }
    \cup { JudgeJson(keys, v, int, val) :
             keys \in SUBSET JudgeFields, v \in JudgeVerdicts,
             int \in BOOLEAN, val \in JudgeScores }

Pending == [raised |-> FALSE, error |-> "pending", verdict |-> NoVerdict]

InitJudgeCall ==
    /\ jresp \in AllJudgeResponses
    /\ jresult = Pending

\* Judge.judge_debate on one model response
JudgeDebate ==
    /\ jresult = Pending
    /\ jresult' = judge_debate(jresp)
    /\ UNCHANGED <<storeVars, clock, liveVars, retroVars, jresp, sessionVars,
                   saved_records, debaterVars, toolVars, txnVars>>

NextRetro == RetroMain \/ JudgeAtTurnCutoff

\* one batch of judge_existing_debates over a database of persisted debates
InitBatch ==
    InitPersisted /\ InitLive /\ InitRetro /\ InitJudge /\ InitSession /\ InitDebater
    /\ InitTxn /\ InitTools

SpecRetro == InitBatch /\ [][NextRetro]_vars

InitVerdict ==
    InitStore /\ InitLive /\ InitRetro /\ InitJudgeCall /\ InitSession /\ InitDebater
    /\ InitTxn /\ InitTools

SpecJudge == InitVerdict /\ [][JudgeDebate]_vars

\* ------------------------------------------------- the store used directly
\* the one-round debates a caller may save
JudgedRecords == { r \in PersistedDebates(1) : r.experiment_config.turns = 1 }

\* the same debates when run_single_debate leaves the judging for later
DeferredRecords == { no_judge_experiment_json(PlainHistory(1), 1, pwf, 1, <<>>) : pwf \in BOOLEAN }

SessionRecords == JudgedRecords \cup DeferredRecords

SessionVerdicts == { <<"supported", 7>>, <<"needs more evidence", -1>> }

\* a caller saves one debate record
Save ==
    /\ sops < MaxStoreOps
    /\ \E experiment \in SessionRecords :
         /\ Commit(save(DB, experiment))
         /\ sresult' = LastRowId(experiments)
         /\ saved_records' = Append(saved_records,
                [id |-> LastRowId(experiments), record |-> experiment, by |-> 0])
    /\ sops' = sops + 1
    /\ UNCHANGED <<clock, liveVars, retroVars, judgeVars, debaterVars, toolVars, txnVars>>

\* a caller saves one judgment under an experiment id of its choice
SaveJudgment ==
    /\ sops < MaxStoreOps
    /\ \E experiment_id \in 1..(MaxStoreOps + 1), v \in SessionVerdicts :
         /\ Commit(save_judgment(DB, experiment_id, ModelId("claude"), 1,
                                 v[1], v[2], "because", clock))
         /\ sresult' = LastRowId(judgments)
    /\ clock' = clock + 1
    /\ sops' = sops + 1
    /\ UNCHANGED <<liveVars, retroVars, judgeVars, saved_records, debaterVars, toolVars, txnVars>>

NextStore == Save \/ SaveJudgment

SpecStore == Init /\ [][NextStore]_vars

\* ------------------------------------------------------ make_argument alone
DebaterKeySets ==
    { ArgumentFields, ArgumentFields \ {"context"}, ArgumentFields \cup {"refused"},
      {"refused", "reason"}, {"refused"} }

AllDebaterResponses ==
    { DebaterNoObject(k) : k \in {"api_error", "no_json", "bad_json"} }
    \cup { DebaterJson(keys, refused, "why", "u", "q", context, argument) :
             keys \in DebaterKeySets, refused \in BOOLEAN,
             context \in {"", "c"}, argument \in {"", "a"} }

\* the entries make_argument can have returned as the k-th of a history
HistoryEntries(k) ==
    { make_argument(position, resp).entry :
        <<position, resp>> \in
            { <<p, r>> \in {"pro", "con"} \X DebaterResponses(k) :
                ~make_argument(p, r).raised } }

\* the debate histories of n entries
RECURSIVE HistoriesOfLength(_)
HistoriesOfLength(n) ==
    IF n = 0 THEN { <<>> }
    ELSE { Append(h, e) : h \in HistoriesOfLength(n - 1), e \in HistoryEntries(n) }

DebaterHistories == UNION { HistoriesOfLength(n) : n \in 0..MaxHistory }

InitDebaterCall ==
    /\ dposition \in {"pro", "con"}
    /\ dhistory \in DebaterHistories
    /\ dresp \in AllDebaterResponses
    /\ dprompt = <<>>
    /\ dresult = DebaterPending

\* Debater.make_argument on one debate history and one model response
MakeArgument ==
    /\ dresult = DebaterPending
    /\ dprompt' = user_prompt(dhistory)
    /\ dresult' = make_argument(dposition, dresp)
    /\ UNCHANGED <<storeVars, clock, liveVars, retroVars, judgeVars, sessionVars,
                   saved_records, dposition, dhistory, dresp, txnVars, toolVars>>

InitArgument ==
    InitStore /\ InitLive /\ InitRetro /\ InitJudge /\ InitSession /\ InitDebaterCall
    /\ InitTxn /\ InitTools

SpecDebater == InitArgument /\ [][MakeArgument]_vars

\* ------------------------------------- store instances sharing one database
\* each save and save_judgment call opens its own connection; the first
\* INSERT of a connection begins a transaction and takes the write lock,
\* which the connection keeps until it commits or is dropped
Writers == 1..MaxWriters

\* the debates the instances save: one round, pro first
TxnRecords == { r \in JudgedRecords : r.experiment_config.pro_went_first }

\* what other connections see after a statement of an open transaction
AfterStatementAutocommit(committed, view) == view

AfterStatement(committed, view) == committed

\* save: INSERT INTO experiments
TxnSave ==
    \E w \in Writers :
        /\ ~txn[w].open
        /\ lock = 0
        /\ sops < MaxStoreOps
        /\ \E experiment \in TxnRecords :
             LET id == LastRowId(experiments)
                 view == [DB EXCEPT !.experiments = Append(@, ExperimentRow(id, experiment))]
             IN /\ txn' = [txn EXCEPT ![w] =
                             [open |-> TRUE, kind |-> "save", experiment |-> <<experiment>>,
                              view |-> view, experiment_id |-> id, k |-> 1]]
                /\ Commit(AfterStatement(DB, view))
        /\ lock' = w
        /\ sops' = sops + 1
        /\ UNCHANGED <<clock, liveVars, retroVars, judgeVars, sresult, saved_records,
                       debaterVars, toolVars>>

\* save: one INSERT INTO debate_turns of the loop over the transcript
TxnInsertTurn ==
    \E w \in Writers :
        /\ txn[w].open
        /\ txn[w].kind = "save"
        /\ txn[w].k <= Len(txn[w].experiment[1].debate_transcript)
        /\ LET t == txn[w]
               row == TurnRows(t.experiment_id, t.experiment[1],
                               LastRowId(t.view.debate_turns) - t.k + 1)[t.k]
               view == [t.view EXCEPT !.debate_turns = Append(@, row)]
           IN /\ txn' = [txn EXCEPT ![w].view = view, ![w].k = t.k + 1]
              /\ Commit(AfterStatement(DB, view))
        /\ UNCHANGED <<clock, liveVars, retroVars, judgeVars, sessionVars, saved_records,
                       debaterVars, toolVars, lock>>

\* save_judgment: INSERT INTO judgments
TxnSaveJudgment ==
    \E w \in Writers :
        /\ ~txn[w].open
        /\ lock = 0
        /\ sops < MaxStoreOps
        /\ LET view == save_judgment(DB, 1, ModelId("claude"), 1, "supported", 7,
                                     "because", clock)
           IN /\ txn' = [txn EXCEPT ![w] =
                           [open |-> TRUE, kind |-> "judgment", experiment |-> <<>>,
                            view |-> view, experiment_id |-> LastRowId(judgments),
                            k |-> 1]]
              /\ Commit(AfterStatement(DB, view))
        /\ lock' = w
        /\ clock' = clock + 1
        /\ sops' = sops + 1
        /\ UNCHANGED <<liveVars, retroVars, judgeVars, sresult, saved_records, debaterVars, toolVars>>

\* conn.commit() and the return of the call
TxnCommit ==
    \E w \in Writers :
        /\ txn[w].open
        /\ txn[w].kind = "save" => txn[w].k > Len(txn[w].experiment[1].debate_transcript)
        /\ Commit(txn[w].view)
        /\ sresult' = txn[w].experiment_id
        /\ saved_records' =
             IF txn[w].kind = "save"
             THEN Append(saved_records, [id |-> txn[w].experiment_id,
                                         record |-> txn[w].experiment[1], by |-> w])
             ELSE saved_records
        /\ txn' = [txn EXCEPT ![w] = NoTxn]
        /\ lock' = 0
        /\ UNCHANGED <<clock, liveVars, retroVars, judgeVars, sops, debaterVars, toolVars>>

\* a statement of save raises, or the process stops, before conn.commit():
\* the connection is dropped and its transaction rolled back
TxnFail ==
    \E w \in Writers :
        /\ txn[w].open
        /\ txn[w].kind = "save"
        /\ sresult' = -1
        /\ txn' = [txn EXCEPT ![w] = NoTxn]
        /\ lock' = 0
        /\ UNCHANGED <<storeVars, clock, liveVars, retroVars, judgeVars, sops,
                       saved_records, debaterVars, toolVars>>

\* the first INSERT of a call finds the database locked by another
\* connection until its timeout: sqlite3.OperationalError, nothing written
TxnBusy ==
    \E w \in Writers :
        /\ ~txn[w].open
        /\ lock \notin {0, w}
        /\ sops < MaxStoreOps
        /\ sops' = sops + 1
        /\ sresult' = -2
        /\ UNCHANGED <<storeVars, clock, liveVars, retroVars, judgeVars, saved_records,
                       debaterVars, toolVars, txnVars>>

NextTxn == TxnSave \/ TxnInsertTurn \/ TxnSaveJudgment \/ TxnCommit \/ TxnFail \/ TxnBusy

SpecTxn == Init /\ [][NextTxn]_vars

\* --------------------------------- a debate run and then judged again
\* judge_existing_debates.py --experiment-ids <id> --judges claude
RejudgeArgs(exp_id) ==
    [mode |-> "ids", ids |-> <<exp_id>>, turns |-> 0, turns_range |-> Range(1, MaxTurns),
     judge_models |-> <<"claude">>, skip_existing |-> TRUE]

\* the judging script started on the debate the last run_debate has saved
Rejudge ==
    /\ pc = "saved"
    /\ runs = MaxRuns
    /\ Main(RejudgeArgs(Len(experiments)))
    /\ UNCHANGED toolVars

\* one judge call of that batch
RejudgePass ==
    /\ ProcessPass(ValidJudgeResponses)
    /\ UNCHANGED toolVars

NextRejudge == StartRun \/ DebaterTurn \/ JudgeAndSave \/ Rejudge \/ RejudgePass

SpecRejudge == Init /\ [][NextRejudge]_vars

\* ------------------------------------------- run_debate_motion_suite.py
\* main: pro_first of the four run_debate_config calls
SuiteConfigs == <<TRUE, FALSE, TRUE, FALSE>>

\* the debate_history of a debate of SuiteRounds rounds in which every
\* Debater call returns an argument
SuiteHistory(pwf) ==
    [k \in 1..(2 * SuiteRounds) |->
        make_argument(DebaterOrder(pwf)[2 - (k % 2)],
                      DebaterJson(ArgumentFields, FALSE, "", "u", "q", "c",
                                  "a" \o ToString(k))).entry]

\* run_judging: "--judges", "all" is list(MODELS.keys())
AllJudges == <<"claude", "gpt4", "gemini", "grok">>

\* run_judging: the command line it gives judge_existing_debates.py
SuiteJudgingArgs(experiment_ids) ==
    [mode |-> "ids", ids |-> experiment_ids, turns |-> 0,
     turns_range |-> Range(1, 6), judge_models |-> AllJudges, skip_existing |-> TRUE]

\* main up to the first run_debate_config call
SuiteStart ==
    /\ suite.pc = "idle"
    /\ \E debates_only \in BOOLEAN :
         suite' = [pc |-> "debates", debates_only |-> debates_only, experiment_ids |-> <<>>]
    /\ UNCHANGED <<storeVars, clock, liveVars, retroVars, judgeVars, sessionVars,
                   saved_records, debaterVars, txnVars, cleaner>>

\* one run_debate_config call: run_single_debate.py runs the debate without
\* a judge and saves it, or exits with an error, which ends the suite
SuiteDebate ==
    /\ suite.pc = "debates"
    /\ LET k == Len(suite.experiment_ids) + 1
           pro_first == SuiteConfigs[k]
           record == no_judge_experiment_json(SuiteHistory(pro_first), SuiteRounds,
                                              pro_first, clock, <<>>)
           exp_id == LastRowId(experiments)
       IN
       \E returncode \in {0, 1} :
          IF returncode # 0
          THEN /\ suite' = [suite EXCEPT !.pc = "failed"]
               /\ UNCHANGED <<storeVars, clock, saved_records>>
          ELSE /\ Commit(save(DB, record))
               /\ clock' = clock + 1
               /\ saved_records' = Append(saved_records,
                      [id |-> exp_id, record |-> record, by |-> 0])
               /\ suite' = [suite EXCEPT
                      !.experiment_ids = Append(@, exp_id),
                      !.pc = IF k < Len(SuiteConfigs) THEN "debates"
                             ELSE IF suite.debates_only THEN "done" ELSE "judging"]
    /\ UNCHANGED <<liveVars, retroVars, judgeVars, sessionVars, debaterVars, txnVars,
                   cleaner>>

\* run_judging up to the first judge call of judge_existing_debates.py
SuiteRunJudging ==
    /\ suite.pc = "judging"
    /\ Main(SuiteJudgingArgs(suite.experiment_ids))
    /\ UNCHANGED toolVars

\* one judge call of the judging run; when its loops end, run_judging
\* returns and main reports the suite complete
SuiteJudgment ==
    /\ suite.pc = "judging"
    /\ ProcessPass(ValidJudgeResponses)
    /\ suite' = [suite EXCEPT !.pc = IF rpc' = "done" THEN "done" ELSE "judging"]
    /\ UNCHANGED cleaner

NextSuite == SuiteStart \/ SuiteDebate \/ SuiteRunJudging \/ SuiteJudgment

\* one run of the debate motion suite
SpecSuite == Init /\ [][NextSuite]_vars

\* ------------------------------------------ clean_debate_motions.py
\* What model.generate gives clean_single_motion: an API error, text without
\* a {...} span, text whose span is not JSON, a JSON number, or a JSON object
\* with some of the keys
CleanerFields == {"motion", "changed", "reason"}

CleanerResponses ==
    { [kind |-> k, keys |-> {}] : k \in {"api_error", "no_json", "bad_json", "json_number"} }
    \cup { [kind |-> "json", keys |-> ks] : ks \in SUBSET CleanerFields }

\* a clean_single_motion that asks for the motion text only
clean_attempt_motion_only(resp) ==
    IF resp.kind = "api_error" THEN "exception"
    ELSE IF resp.kind = "no_json" THEN "no_json"
    ELSE IF resp.kind \in {"bad_json", "json_number"} THEN "exception"
    ELSE IF "motion" \notin resp.keys THEN "missing"
    ELSE "return"

\* clean_single_motion: the body of one attempt.  A span that is not JSON
\* raises out of the JSONDecodeError handler and "field in result" raises
\* TypeError for a number: both reach "except Exception"
clean_attempt(resp) ==
    IF resp.kind = "api_error" THEN "exception"
    ELSE IF resp.kind = "no_json" THEN "no_json"
    ELSE IF resp.kind \in {"bad_json", "json_number"} THEN "exception"
    ELSE IF CleanerFields \ resp.keys # {} THEN "missing"
    ELSE "return"

\* clean_single_motion: "if attempt < max_retries - 1: ... continue"
RetryAllowed(attempt, max_retries) == attempt < max_retries - 1

\* clean_single_motion up to the loop: an empty motion returns None at once,
\* and range(max_retries) is empty for max_retries = 0
CleanStart ==
    /\ cleaner.pc = "idle"
    /\ \E original_motion \in {"", "m"}, max_retries \in 0..MaxRetries :
         cleaner' = [pc |-> IF original_motion = "" \/ max_retries = 0
                            THEN "returned" ELSE "loop",
                     motion |-> original_motion, max_retries |-> max_retries,
                     attempt |-> 0, calls |-> <<>>, result |-> <<>>]
    /\ UNCHANGED <<storeVars, clock, liveVars, retroVars, judgeVars, sessionVars,
                   saved_records, debaterVars, txnVars, suite>>

\* one pass of "for attempt in range(max_retries)": a "continue" goes to the
\* next attempt while the range has one
CleanAttempt ==
    /\ cleaner.pc = "loop"
    /\ \E resp \in CleanerResponses :
         LET outcome == clean_attempt(resp)
             called == [cleaner EXCEPT !.calls = Append(@, resp)]
         IN
         cleaner' =
            IF outcome = "return"
            THEN [called EXCEPT !.pc = "returned", !.result = <<resp>>]
            ELSE IF RetryAllowed(cleaner.attempt, cleaner.max_retries)
                    /\ cleaner.attempt + 1 < cleaner.max_retries
            THEN [called EXCEPT !.attempt = @ + 1]
            ELSE [called EXCEPT !.pc = "returned"]
    /\ UNCHANGED <<storeVars, clock, liveVars, retroVars, judgeVars, sessionVars,
                   saved_records, debaterVars, txnVars, suite>>

NextCleaner == CleanStart \/ CleanAttempt

\* one clean_single_motion call; a model call returns or raises
SpecCleaner == Init /\ [][NextCleaner]_vars /\ WF_vars(CleanAttempt)

\* ------------------------------------------------------------------ claims

\* C1: once a Debater or Judge call of a run has failed, the experiments and
\* debate_turns tables hold exactly the rows they held when the run started.
C1_NothingSavedOnFailure ==
    failed => /\ experiments = store_before.experiments
              /\ debate_turns = store_before.debate_turns

\* the Judge failed after all 2*turns Debater calls succeeded, on a store
\* that already holds a debate
C1_Witness ==
    /\ pc = "aborted"
    /\ failed
    /\ Len(debate_history) = 2 * turns
    /\ Len(judge_calls) = 1
    /\ Len(experiments) > 0

\* C2: in a saved debate a refusal at entry k is followed by exactly one more
\* entry, the other side's response of the same round.
C2_GraceEntryAfterRefusal ==
    \A k \in 1..Len(debate_history) :
        (pc = "saved" /\ debate_history[k].refused) =>
            /\ Len(debate_history) = k + 1
            /\ debate_history[k + 1].position # debate_history[k].position

\* C3: after a refusal at entry k at most one further entry is appended and
\* no Debater is invoked for a later round.
C3_AtMostOneAfterRefusal ==
    \A k \in 1..Len(debate_history) :
        debate_history[k].refused =>
            /\ Len(debate_history) <= k + 1
            /\ Len(invocations) <= k + 1
            /\ \A i \in 1..Len(invocations) :
                   i > k => invocations[i].round <= invocations[k].round

\* a debate saved after a refusal in a round before the last planned one
C3_Witness ==
    /\ pc = "saved"
    /\ \E k \in 1..Len(debate_history) :
          debate_history[k].refused /\ invocations[k].round < turns

\* C4: a verdict judge_debate returns has the label "needs more evidence"
\* exactly when its score is -1, and a score in 0..10 otherwise.
C4_ScoreVerdictIff ==
    (~jresult.raised /\ jresult # Pending) =>
        /\ (jresult.verdict.verdict = "needs more evidence") <=> (jresult.verdict.score = -1)
        /\ jresult.verdict.verdict # "needs more evidence" => jresult.verdict.score \in 0..10

\* the judgments rows a batch has appended so far
Appended == SubSeq(judgments, Len(retro_before.judgments) + 1, Len(judgments))

\* C5: a batch of process_experiment calls leaves the experiments and
\* debate_turns rows as they were and only appends rows to judgments.
C5_DebateRecordUntouched ==
    rpc # "idle" =>
        /\ experiments = retro_before.experiments
        /\ debate_turns = retro_before.debate_turns
        /\ Len(judgments) >= Len(retro_before.judgments)
        /\ SubSeq(judgments, 1, Len(retro_before.judgments)) = retro_before.judgments

\* process_experiment ran twice over the same debate and saved judgments in
\* both runs
C5_Witness ==
    /\ rpc = "done"
    /\ args.mode = "ids"
    /\ args.ids = <<1, 1>>
    /\ \E i, k \in 1..Len(retro_log) :
         /\ retro_log[i].pass[1] = 1 /\ retro_log[i].judgment_id # 0
         /\ retro_log[k].pass[1] = 2 /\ retro_log[k].judgment_id # 0

\* C6: a failed judge call saves no row and never stops the batch: a finished
\* batch has made every pass of the loops in order, and the rows appended are
\* those of the passes whose judge call returned, in order.
C6_FailureSkipsOnePair ==
    /\ rpc # "crashed"
    /\ \A i \in 1..Len(retro_log) : retro_log[i].raised => retro_log[i].judgment_id = 0
    /\ Len(Appended) = Cardinality({ i \in 1..Len(retro_log) : ~retro_log[i].raised })
    /\ \A i \in 1..Len(retro_log) :
          ~retro_log[i].raised =>
             /\ retro_log[i].judgment_id \in 1..Len(judgments)
             /\ judgments[retro_log[i].judgment_id].turns_considered = retro_log[i].cutoff
    /\ rpc = "done" =>
          /\ { retro_log[i].pass : i \in 1..Len(retro_log) } = Passes(exp_list, args)
          /\ \A i, k \in 1..Len(retro_log) :
                i < k => Before(retro_log[i].pass, retro_log[k].pass)

\* a finished batch in which a judge call failed between two that were saved
C6_Witness ==
    /\ rpc = "done"
    /\ \E i, k, m \in 1..Len(retro_log) :
         /\ i < k /\ k < m
         /\ retro_log[i].judgment_id # 0
         /\ retro_log[k].raised
         /\ retro_log[m].judgment_id # 0

\* the judge calls made for the e-th experiment of the batch at one cutoff
\* with one judge model
CallsFor(e, c, j) ==
    { i \in 1..Len(retro_log) : retro_log[i].called /\ retro_log[i].pass = <<e, c, j>> }

NoRefusal(transcript) == \A k \in 1..Len(transcript) : ~transcript[k].refused

By(transcript, side) == { k \in 1..Len(transcript) : transcript[k].debater = side }

\* C8: truncating a refusal-free debate of T rounds at cutoff c gives 2c
\* entries, c by pro and c by con, namely the first 2c entries (rounds 1..c).
C8_TruncationKeepsRounds ==
    \A i \in 1..Len(retro_log) :
        LET e == exp_list[retro_log[i].pass[1]].exp_data
            c == retro_log[i].cutoff
            cut == retro_log[i].truncated
        IN (NoRefusal(e.debate_transcript) /\ c \in 1..e.experiment_config.turns) =>
              /\ Len(cut) = 2 * c
              /\ Cardinality(By(cut, "pro")) = c
              /\ Cardinality(By(cut, "con")) = c
              /\ cut = SubSeq(e.debate_transcript, 1, 2 * c)

\* a con-first debate of MaxTurns rounds without refusal cut before its last round
C8_Witness ==
    \E i \in 1..Len(retro_log) :
        LET e == exp_list[retro_log[i].pass[1]].exp_data IN
        /\ NoRefusal(e.debate_transcript)
        /\ ~e.experiment_config.pro_went_first
        /\ e.experiment_config.turns = MaxTurns
        /\ retro_log[i].cutoff = MaxTurns - 1
        /\ Len(retro_log[i].truncated) = 2 * (MaxTurns - 1)

\* C9: every judgments row of a batch carries the id of the experiments row
\* whose transcript was judged for it.
C9_JudgmentNamesJudgedDebate ==
    \A i \in 1..Len(retro_log) :
        retro_log[i].judgment_id # 0 =>
            LET named == get_by_id(DB, judgments[retro_log[i].judgment_id].experiment_id)
            IN /\ named # <<>>
               /\ judgments[retro_log[i].judgment_id].experiment_id = retro_log[i].row
               /\ named[1] = exp_list[retro_log[i].pass[1]].exp_data

\* C10: every judgments row references an experiments row that exists.
C10_JudgmentReferencesExperiment ==
    \A k \in 1..Len(judgments) :
        \E i \in 1..Len(experiments) : experiments[i].id = judgments[k].experiment_id

\* the rows of a list
Rows(list) == { list[k] : k \in 1..Len(list) }

\* C11: a save_judgment call adds exactly one judgments row, with an id no
\* earlier row has, and leaves every earlier row as it was; get_judgments for
\* the (experiment_id, judge_model, turns_considered) of the new row returns
\* the rows it returned before the call and the new one.
C11_JudgmentsOnlyAppended ==
    [][judgments' # judgments =>
         LET new == judgments'[Len(judgments')]
             after == [experiments |-> experiments', debate_turns |-> debate_turns',
                       judgments |-> judgments']
             was == get_judgments(DB, <<new.experiment_id>>, <<new.judge_model>>,
                                  <<new.turns_considered>>)
             is == get_judgments(after, <<new.experiment_id>>, <<new.judge_model>>,
                                 <<new.turns_considered>>)
         IN /\ Len(judgments') = Len(judgments) + 1
            /\ SubSeq(judgments', 1, Len(judgments)) = judgments
            /\ \A k \in 1..Len(judgments) : judgments[k].id # new.id
            /\ Rows(is) = Rows(was) \cup {new}
            /\ Len(is) = Len(was) + 1]_vars

\* three judgments of experiment 1 by the same judge at the same cutoff, not
\* all with the same verdict
C11_Witness ==
    LET same == get_judgments(DB, <<1>>, <<ModelId("claude")>>, <<1>>)
    IN /\ Len(same) = 3
       /\ \E i, k \in 1..Len(same) : same[i].verdict # same[k].verdict

\* the store already held a judgment for the experiment id, judge model and
\* cutoff of the i-th pass of the batch when that pass began
ExistingAtPass(i) ==
    LET held == Len(retro_before.judgments)
                + Cardinality({ k \in 1..(i - 1) : retro_log[k].judgment_id # 0 })
    IN \E k \in 1..held :
          /\ judgments[k].experiment_id = retro_log[i].exp_id
          /\ judgments[k].judge_model = ModelId(retro_log[i].judge_model)
          /\ judgments[k].turns_considered = retro_log[i].cutoff

\* C12: with skip_existing set, a pass for an (experiment, judge model,
\* cutoff) the store already holds a judgment for neither calls the Judge nor
\* saves a row.
C12_SkipsExistingJudgments ==
    \A i \in 1..Len(retro_log) :
        (args.skip_existing /\ ExistingAtPass(i)) =>
            /\ ~retro_log[i].called
            /\ retro_log[i].judgment_id = 0

\* two debate histories that differ only in their refused entries
SameButRefusals(h, g) ==
    SelectSeq(h, LAMBDA e : ~e.refused) = SelectSeq(g, LAMBDA e : ~e.refused)

\* C13: the user prompt make_argument builds carries no refusal reason of
\* the history, and is the prompt built for every history that differs from
\* this one only in refused entries.
C13_PromptHidesRefusals ==
    dresult # DebaterPending =>
        /\ \A k \in 1..Len(dhistory), n \in 1..Len(dprompt) :
              dhistory[k].refused =>
                 dhistory[k].refusal_reason \notin
                    { dprompt[n].text, dprompt[n].url, dprompt[n].quote,
                      dprompt[n].context, dprompt[n].argument }
        /\ \A g \in DebaterHistories :
              SameButRefusals(dhistory, g) => user_prompt(g) = dprompt

\* C17: an entry make_argument returns has url, quote, context and argument
\* all non-empty when it is not refused, and all empty when it is refused.
C17_TurnEntryInvariant ==
    (dresult # DebaterPending /\ ~dresult.raised) =>
        LET e == dresult.entry IN
        IF e.refused
        THEN e.url = "" /\ e.quote = "" /\ e.context = "" /\ e.argument = ""
        ELSE e.url # "" /\ e.quote # "" /\ e.context # "" /\ e.argument # ""

\* the record in the newest experiments row, as get_by_id returns it
NewRow == get_by_id(DB, Len(experiments))[1]

\* the transcript run_debate hands to store.save for its debate_history
SavedTranscript == [k \in 1..Len(debate_history) |-> TranscriptEntry(debate_history[k], k)]

\* C14: in a saved debate every refusal of the run is a refused entry of the
\* persisted transcript and an event of the persisted errors_or_refusals list.
C14_RefusalRecordedTwice ==
    pc = "saved" =>
        LET refusals == { k \in 1..Len(debate_history) : debate_history[k].refused }
        IN /\ \A k \in refusals :
                 /\ k <= Len(NewRow.debate_transcript)
                 /\ NewRow.debate_transcript[k].refused
           /\ Len(NewRow.errors_or_refusals) >= Cardinality(refusals)

\* C15: no Debater is called once the Judge has been called; a run that
\* completes has called the Judge exactly once, on the whole debate_history,
\* and has added exactly one experiments row, which holds that transcript;
\* until then the run adds none.
C15_JudgeOnceThenSaveOnce ==
    /\ pc = "debating" => judge_calls = <<>>
    /\ Len(judge_calls) <= 1
    /\ pc \in {"debating", "judging", "aborted"} =>
          experiments = store_before.experiments
    /\ pc = "saved" =>
          /\ Len(judge_calls) = 1
          /\ judge_calls[1] = debate_history
          /\ Len(experiments) = Len(store_before.experiments) + 1
          /\ SubSeq(experiments, 1, Len(store_before.experiments)) = store_before.experiments
          /\ NewRow.debate_transcript = SavedTranscript

\* a run of more than one planned round that a refusal ended in round 1
C15_Witness ==
    /\ pc = "saved"
    /\ debate_shortened
    /\ turns > 1
    /\ turn = 1
    /\ Len(judge_calls) = 1

\* positions alternate along a history
Alternates(history) ==
    \A k \in 1..(Len(history) - 1) : history[k].position # history[k + 1].position

\* C16: a run saved without a refusal appended the entry of every Debater
\* call: 2*turns entries, alternating, the first by pro exactly when
\* pro_went_first, and one experiments row was added, holding them.
C16_FullDebateTranscript ==
    (pc = "saved" /\ ~debate_shortened) =>
        /\ Len(debate_history) = 2 * turns
        /\ Len(invocations) = Len(debate_history)
        /\ debate_history[1].position = (IF pro_went_first THEN "pro" ELSE "con")
        /\ Alternates(debate_history)
        /\ \A k \in 1..Len(debate_history) : ~debate_history[k].refused
        /\ Len(experiments) = Len(store_before.experiments) + 1
        /\ Len(NewRow.debate_transcript) = 2 * turns
        /\ \A k \in 1..Len(debate_history) :
              NewRow.debate_transcript[k].debater = debate_history[k].position

\* a con-first debate of MaxTurns rounds saved without a refusal
C16_Witness ==
    /\ pc = "saved"
    /\ ~debate_shortened
    /\ ~pro_went_first
    /\ turns = MaxTurns
    /\ Len(debate_history) = 2 * MaxTurns

\* the debate_turns rows any connection reads for one experiment id
TurnRowsOf(id) == SelectSeq(debate_turns, LAMBDA r : r.experiment_id = id)

\* C18: whatever the store instances are doing, a reader finds every
\* experiments row with all the debate_turns rows of its transcript, in
\* order, and every debate_turns row under the id of its own experiment.
C18_SaveIsAtomic ==
    /\ \A i \in 1..Len(experiments) :
          LET transcript == json_loads(experiments[i].full_data).debate_transcript
              rows == TurnRowsOf(experiments[i].id)
          IN /\ Len(rows) = Len(transcript)
             /\ \A k \in 1..Len(rows) :
                   /\ rows[k].turn_number = transcript[k].turn
                   /\ rows[k].debater = transcript[k].debater
                   /\ rows[k].argument = transcript[k].argument
                   /\ rows[k].refused = (IF transcript[k].refused THEN 1 ELSE 0)
    /\ \A k \in 1..Len(debate_turns) :
          \E i \in 1..Len(experiments) : experiments[i].id = debate_turns[k].experiment_id

\* after one save committed and another failed, a third is part-way through
\* a two-entry transcript while the database already holds a debate
C18_Witness ==
    /\ sresult = -1
    /\ Len(saved_records) > 0
    /\ \E w \in Writers :
          /\ txn[w].open
          /\ txn[w].kind = "save"
          /\ txn[w].k = 2
          /\ Len(txn[w].experiment[1].debate_transcript) = 2
          /\ Len(txn[w].view.debate_turns) = Len(debate_turns) + 1

\* C19: the ids save has returned, in the order of the calls, are strictly
\* increasing, and each names exactly one experiments row.
C19_IdsFreshAndIncreasing ==
    /\ \A i, k \in 1..Len(saved_records) :
          i < k => saved_records[i].id < saved_records[k].id
    /\ \A i \in 1..Len(saved_records) :
          Cardinality({ n \in 1..Len(experiments) :
                          experiments[n].id = saved_records[i].id }) = 1

\* two store instances have each saved a debate, the second just now, among
\* MaxStoreOps calls of which at least one returned no experiment id
C19_Witness ==
    /\ sresult > 0
    /\ \E i, k \in 1..Len(saved_records) :
          /\ i < k
          /\ saved_records[i].by = 1
          /\ saved_records[k].by = 2
    /\ sops = MaxStoreOps
    /\ Len(saved_records) < MaxStoreOps

\* C20: get_by_id of an id save returned gives the record saved under it,
\* whatever was saved since; get_by_id of any other id gives None.
C20_GetByIdReturnsSaved ==
    /\ \A i \in 1..Len(saved_records) :
          get_by_id(DB, saved_records[i].id) = << saved_records[i].record >>
    /\ \A id \in 0..(MaxStoreOps + 2) :
          (\A i \in 1..Len(saved_records) : saved_records[i].id # id) =>
              get_by_id(DB, id) = <<>>

\* a debate with a refused entry was saved, then another debate, then a
\* judgment
C20_Witness ==
    /\ Len(judgments) > 0
    /\ sresult = Len(judgments)
    /\ \E i, k \in 1..Len(saved_records) :
          /\ i < k
          /\ saved_records[i].record # saved_records[k].record
          /\ \E n \in 1..Len(saved_records[i].record.debate_transcript) :
                saved_records[i].record.debate_transcript[n].refused

\* C22: a debate record saved with no judge decision (judging deferred) has
\* NULL in the columns judge_verdict, judge_score and judge_reasoning of its
\* experiments row, not a verdict string or a numeric score.
C22_DeferredDecisionStoredNull ==
    \A i \in 1..Len(saved_records) :
        LET s == saved_records[i]
            row == experiments[s.id]
        IN s.record.judge_decision.keys = {} =>
              /\ row.judge_verdict = SqlNull
              /\ row.judge_score = SqlNull
              /\ row.judge_reasoning = SqlNull

\* the judgments the judging run of the suite has saved
SuiteJudgments == SubSeq(judgments, Len(retro_before.judgments) + 1, Len(judgments))

\* C21: a run of the debate motion suite in which every call succeeds has
\* run 4 debates and saved 4 x 4 x 4 = 64 judgments: each of the 4 judge
\* models has judged each debate at the turn lengths 1, 2, 4 and 6 only.
C21_SuiteSixtyFourJudgments ==
    (suite.pc = "done" /\ ~suite.debates_only) =>
        /\ Len(suite.experiment_ids) = 4
        /\ Len(SuiteJudgments) = 64
        /\ \A i \in 1..Len(SuiteJudgments) :
              SuiteJudgments[i].turns_considered \in {1, 2, 4, 6}

\* a parsed judge response that lacks a field, names no valid verdict, or
\* whose score is not an integer in -1..10
Malformed(resp) ==
    \/ "verdict" \notin resp.keys
    \/ "score" \notin resp.keys
    \/ "explanation" \notin resp.keys
    \/ resp.verdict \notin {"supported", "contradicted", "misleading", "needs more evidence"}
    \/ ~resp.score.int
    \/ resp.score.val < -1
    \/ resp.score.val > 10

LastRound(transcript) == transcript[Len(transcript)].turn

\* C24: no judgment is saved for turns that were never debated: for a
\* debate that a refusal ended in round r < experiment_config.turns, the
\* batch saves no judgment with turns_considered > r.
C24_NoJudgmentBeyondLastRound ==
    \A i \in 1..Len(retro_log) :
        LET e == exp_list[retro_log[i].pass[1]].exp_data IN
        (/\ retro_log[i].judgment_id # 0
         /\ LastRound(e.debate_transcript) < e.experiment_config.turns) =>
            judgments[retro_log[i].judgment_id].turns_considered
                <= LastRound(e.debate_transcript)

\* C25: in the transcript run_debate persists, the turn of the k-th entry is
\* the round in which the Debater call that produced it was made, and that
\* round is ceil(k/2): the least n with k <= 2n.
C25_TurnIsRoundOfEntry ==
    pc = "saved" =>
        /\ Len(NewRow.debate_transcript) = Len(invocations)
        /\ \A k \in 1..Len(NewRow.debate_transcript) :
              LET n == NewRow.debate_transcript[k].turn IN
              /\ n = invocations[k].round
              /\ k <= 2 * n
              /\ k > 2 * (n - 1)
              /\ TurnRowsOf(Len(experiments))[k].turn_number = n

\* a con-first debate that a refusal ended in the first slot of round 2
C25_Witness ==
    /\ pc = "saved"
    /\ ~pro_went_first
    /\ debate_shortened
    /\ Len(NewRow.debate_transcript) = 3
    /\ NewRow.debate_transcript[3].turn = 2

\* C26: the Debater calls of a run are sequential and causally ordered: the
\* k-th call is passed exactly the k-1 entries appended so far, in the order
\* of the calls that produced them, and every earlier call's entry is in the
\* history before the next call starts.
C26_DebaterSeesAllEarlierEntries ==
    /\ Len(debate_history) + 1 >= Len(invocations)
    /\ \A k \in 1..Len(invocations) :
          /\ Len(invocations[k].seen) = k - 1
          /\ \A j \in 1..(k - 1) :
                /\ invocations[k].seen[j] = debate_history[j]
                /\ invocations[k].seen[j].position = invocations[j].position
                /\ ~invocations[k].seen[j].refused =>
                       invocations[k].seen[j].argument = "a" \o ToString(j)

\* the last call of a con-first debate of MaxTurns rounds was passed the
\* 2 * MaxTurns - 1 entries before it
C26_Witness ==
    /\ ~pro_went_first
    /\ Len(invocations) = 2 * MaxTurns
    /\ Len(invocations[2 * MaxTurns].seen) = 2 * MaxTurns - 1
    /\ Len(debate_history) = 2 * MaxTurns

\* the calls of the run so far: one Debater call at most per (round, side),
\* one Judge call at most, 2 * turns + 1 calls at most, and a failed call
\* has ended the run
OneCallPerSlot ==
    /\ \A i, j \in 1..Len(invocations) :
          (invocations[i].round = invocations[j].round
           /\ invocations[i].position = invocations[j].position) => i = j
    /\ \A i \in 1..Len(invocations) : invocations[i].round \in 1..turns
    /\ Len(judge_calls) <= 1
    /\ Len(invocations) + Len(judge_calls) <= 2 * turns + 1
    /\ failed => pc = "aborted"

\* C27: run_debate never retries a turn: it makes at most one model call per
\* (round, side) slot and at most one judge call, a failed or malformed
\* turn aborts the run, so a run makes at most 2 * turns + 1 model calls, and
\* a run that has started ends saved or aborted.
C27_NoRetryAndTerminates ==
    /\ []OneCallPerSlot
    /\ (pc \in {"debating", "judging"}) ~> (pc \in {"saved", "aborted"})

\* a run of MaxTurns rounds made all its 2 * MaxTurns + 1 calls and the last
\* one, the Judge's, failed
C27_Witness ==
    /\ turns = MaxTurns
    /\ Len(invocations) = 2 * MaxTurns
    /\ Len(judge_calls) = 1
    /\ failed
    /\ pc = "aborted"

\* a response that parses as JSON and has the three fields
Usable(resp) == resp.kind = "json" /\ {"motion", "changed", "reason"} \subseteq resp.keys

\* the calls made so far, and what a finished call returned
CleanerBounded ==
    /\ Len(cleaner.calls) <= cleaner.max_retries
    /\ \A i \in 1..(Len(cleaner.calls) - 1) : ~Usable(cleaner.calls[i])
    /\ cleaner.pc = "loop" =>
          /\ Len(cleaner.calls) < cleaner.max_retries
          /\ \A i \in 1..Len(cleaner.calls) : ~Usable(cleaner.calls[i])
    /\ (cleaner.pc = "returned" /\ cleaner.result # <<>>) =>
          /\ cleaner.calls # <<>>
          /\ cleaner.result[1] = cleaner.calls[Len(cleaner.calls)]
          /\ Usable(cleaner.result[1])
    /\ (cleaner.pc = "returned" /\ cleaner.result = <<>>) =>
          /\ \A i \in 1..Len(cleaner.calls) : ~Usable(cleaner.calls[i])
          /\ cleaner.motion # "" => Len(cleaner.calls) = cleaner.max_retries

\* C28: clean_single_motion calls the model at most max_retries times: it
\* returns the first response that parses as JSON and has the fields motion,
\* changed and reason, retries after a provider error, an unparseable
\* response or a missing field only while attempts remain, returns None once
\* every attempt has failed, and a call that entered the loop returns.
C28_CleanerRetriesBounded ==
    /\ []CleanerBounded
    /\ (cleaner.pc = "loop") ~> (cleaner.pc = "returned")

\* with the default max_retries = 2 the first response lacked a field and
\* the second was returned
C28_Witness ==
    /\ cleaner.pc = "returned"
    /\ cleaner.max_retries = 2
    /\ Len(cleaner.calls) = 2
    /\ cleaner.calls[1] = [kind |-> "json", keys |-> {"motion", "changed"}]
    /\ cleaner.result = <<cleaner.calls[2]>>

\* C29: the history judge_at_turn_cutoff passes to the Judge has one entry
\* per entry of the truncated stored transcript, in the same order, with
\* the same position, url, quote, argument, refused flag and refusal reason
\* and the empty string as context; at the cutoff of the debate's last round
\* it is, context apart, what the live Judge was given.
C29_HistoryMirrorsTranscript ==
    \A i \in 1..Len(retro_log) :
        LET log == retro_log[i]
            stored == exp_list[log.pass[1]].exp_data.debate_transcript
        IN
        /\ Len(log.history) = Len(log.truncated)
        /\ \A k \in 1..Len(log.truncated) :
              /\ log.truncated[k] = stored[k]
              /\ log.history[k].position = stored[k].debater
              /\ log.history[k].url = stored[k].source_url
              /\ log.history[k].quote = stored[k].source_quote
              /\ log.history[k].argument = stored[k].argument
              /\ log.history[k].refused = stored[k].refused
              /\ log.history[k].refusal_reason = stored[k].refusal_reason
              /\ log.history[k].context = ""
        /\ (pc = "saved" /\ log.exp_id = Len(experiments)
                         /\ log.cutoff = LastRound(stored)) =>
              /\ Len(log.history) = Len(judge_calls[1])
              /\ \A k \in 1..Len(log.history) :
                    LET live == judge_calls[1][k] IN
                    /\ log.history[k].position = live.position
                    /\ log.history[k].url = live.url
                    /\ log.history[k].quote = live.quote
                    /\ log.history[k].argument = live.argument
                    /\ log.history[k].refused = live.refused
                    /\ log.history[k].refusal_reason = live.refusal_reason

\* a debate of two rounds that a refusal ended was judged again at cutoff 2,
\* and the live Judge had seen a context that the second Judge did not
C29_Witness ==
    /\ pc = "saved"
    /\ debate_shortened
    /\ \E i \in 1..Len(retro_log) :
          /\ retro_log[i].exp_id = Len(experiments)
          /\ retro_log[i].called
          /\ retro_log[i].cutoff = 2
          /\ Len(retro_log[i].history) = 3
          /\ retro_log[i].history[3].refused
          /\ judge_calls[1][1].context = "c"

\* the refused entries of a list of entries
Refused(entries) == { k \in 1..Len(entries) : entries[k].refused }

====
